---- MODULE Spec2Model ----
(***************************************************************************)
(* Shopping List API (Node + Express).  The repository holds two servers   *)
(* that expose the same uuCmd endpoints:                                   *)
(*   - the mock server (src/unnamed/part_000, lines 1-368): no store,      *)
(*     every handler authorizes, validates and answers fixed data;         *)
(*   - the MongoDB server (src/unnamed/part_000, lines 370-685) over the   *)
(*     ShoppingList model (src/backend/models/ShoppingList.js).            *)
(* A run of the model is a run of one of the two programs (variable        *)
(* server).  Express calls a handler for each request; a handler runs      *)
(* without interruption until it answers or awaits the store, and the      *)
(* handlers of other requests run while it waits.                          *)
(*                                                                         *)
(* Strings that come from a request are sequences of atoms: an atom of     *)
(* WhiteSpace is one whitespace character, every other atom is a piece of  *)
(* text without whitespace.  A number is a double, kept exactly: the       *)
(* natural m and the exponent e of m * 2^e.                                *)
(* An ObjectId is a natural number n; its 24-digit hex form is scaled to   *)
(* the one-digit string <<Digits[n]>>.  A time is a natural number of      *)
(* Clock.  The schema has timestamps: the model stamps a new document's    *)
(* createdAt and updatedAt, and the updatedAt of every update, with the    *)
(* time it reads when the handler calls it.                                *)
(***************************************************************************)
EXTENDS Integers, Sequences, FiniteSets, TLC

\* Number of ObjectIds the store mints in a run.
MaxOid == 2

----------------------------------------------------------------------------
\* JavaScript values of a request field: undefined, a string, a number.

Undefined == [t |-> "undefined", s |-> <<>>, n |-> 0]

Str(x) == [t |-> "string", s |-> x, n |-> 0]

Num(k) == [t |-> "number", s |-> <<>>, n |-> k]

\* !v
Falsy(v) ==
    \/ v.t = "undefined"
    \/ v.t = "string" /\ v.s = <<>>
    \/ v.t = "number" /\ v.n = 0

\* typeof v === "string"
IsString(v) == v.t = "string"

\* WhiteSpace and LineTerminator of ECMAScript, the characters that
\* String.prototype.trim and Number strip: TAB, VT, FF, SP, NBSP, ZWNBSP, the
\* space separators (Zs), LF, CR, LS, PS.  VT, NBSP, ZWNBSP and U+1680 stand
\* in a string as they are; a whitespace character that a TLA+ string cannot
\* hold is the atom that spells its escape, \uXXXX.
VT == ""

NBSP == " "

ZWNBSP == "﻿"

OghamSpace == " "

EscapedWhite ==
    {"\\u2000", "\\u2001", "\\u2002", "\\u2003", "\\u2004", "\\u2005", "\\u2006",
     "\\u2007", "\\u2008", "\\u2009", "\\u200A", "\\u2028", "\\u2029", "\\u202F",
     "\\u205F", "\\u3000"}

WhiteSpace ==
    {"\t", VT, "\f", " ", NBSP, ZWNBSP, OghamSpace, "\n", "\r"} \cup EscapedWhite

IsWhite(c) == c \in WhiteSpace

RECURSIVE TrimStart(_)
TrimStart(s) ==
    IF s # <<>> /\ IsWhite(Head(s)) THEN TrimStart(Tail(s)) ELSE s

RECURSIVE TrimEnd(_)
TrimEnd(s) ==
    IF s # <<>> /\ IsWhite(s[Len(s)]) THEN TrimEnd(SubSeq(s, 1, Len(s) - 1)) ELSE s

\* Mutant of trim: trimStart() where the code has trim().
trimStartOnly(s) == TrimStart(s)

\* String.prototype.trim
trim(s) == TrimEnd(TrimStart(s))

\* {} : an object without keys
EmptyObj == [k \in {} |-> 0]

\* obj[key] = val
Put(obj, key, val) ==
    [k \in DOMAIN obj \cup {key} |-> IF k = key THEN val ELSE obj[k]]

\* Object.keys(obj).length > 0
HasKeys(obj) == DOMAIN obj # {}

----------------------------------------------------------------------------
\* Configuration of the two servers.

PROFILES ==
    [AUTHORITIES |-> "Authorities", USER |-> "User",
     OWNER |-> "ShoppingListOwner", MEMBER |-> "ShoppingListMember"]

AllProfiles == {PROFILES.AUTHORITIES, PROFILES.USER, PROFILES.OWNER, PROFILES.MEMBER}

AWID == "shoppingListApp"

\* req.user.uuIdentity set by the mock authentication middleware
MOCK_USER == "uu5:1234-5678"

\* the owner the MongoDB server records
MOCK_OWNER == "uu5:1234-5678"

ACTIVE == <<"active">>

ARCHIVED == <<"archived">>

\* Mutant of hasAnyProfile: every() where the code has some().
hasEveryProfile(profiles, requiredProfiles) ==
    \A p \in requiredProfiles : p \in profiles

\* requiredProfiles.some((p) => req.user.profiles.includes(p))
hasAnyProfile(profiles, requiredProfiles) ==
    \E p \in requiredProfiles : p \in profiles

\* { type: "error", message, paramMap }  (paramMap defaults to {})
buildError(code, message, paramMap) ==
    [type |-> "error", message |-> message, paramMap |-> paramMap]

\* the MongoDB server's inline entries without paramMap
FailedEntry(message) == [type |-> "error", message |-> message]

\* Mutant of buildResponse: the map is attached only when it has entries.
buildResponseOmitsEmptyMap(dtoOut, errorMap) ==
    IF DOMAIN errorMap = {} THEN dtoOut
    ELSE [k \in DOMAIN dtoOut \cup {"uuAppErrorMap"} |->
            IF k = "uuAppErrorMap" THEN errorMap ELSE dtoOut[k]]

\* { ...dtoOut, uuAppErrorMap: errorMap }
buildResponse(dtoOut, errorMap) ==
    [k \in DOMAIN dtoOut \cup {"uuAppErrorMap"} |->
        IF k = "uuAppErrorMap" THEN errorMap ELSE dtoOut[k]]

\* res.status(code).json(body)
Reply(code, body) == [status |-> code, body |-> body]

----------------------------------------------------------------------------
\* The mock server: handlers over (req.user, dtoIn), no store.

Digits == <<"1", "2", "3", "4", "5", "6", "7", "8", "9">>

\* "list-" + Date.now()
ListIdAt(now) == <<"list-", Digits[now]>>

\* !v || typeof v !== "string" || v.trim() === ""
RequiredNameInvalid(v) == Falsy(v) \/ ~IsString(v) \/ trim(v.s) = <<>>

\* one entry under its key, the shape every early return of the mock server sends
OneError(key, message, paramMap) ==
    Put(EmptyObj, key, buildError(key, message, paramMap))

mockCreate(user, dtoIn, now) ==
    IF ~hasAnyProfile(user.profiles, {PROFILES.USER, PROFILES.AUTHORITIES})
    THEN Reply(403, buildResponse(EmptyObj,
             OneError("shoppingList/create/unauthorized",
                      "User is not authorized to create a shopping list.", EmptyObj)))
    ELSE IF RequiredNameInvalid(dtoIn.name)
    THEN Reply(400, buildResponse(EmptyObj,
             OneError("shoppingList/create/invalidName",
                      "name is required and must be a non-empty string.",
                      [name |-> dtoIn.name])))
    ELSE Reply(200, buildResponse(
             [awid |-> AWID, id |-> ListIdAt(now), name |-> trim(dtoIn.name.s),
              state |-> ACTIVE, ownerUuIdentity |-> user.uuIdentity,
              members |-> <<>>, items |-> <<>>],
             EmptyObj))

ExampleMembers ==
    << [uuIdentity |-> "uu5:1234-5678", role |-> "owner"],
       [uuIdentity |-> "uu5:8765-4321", role |-> "member"] >>

ExampleItems ==
    << [id |-> "i1", name |-> <<"Milk">>, quantity |-> 2, unit |-> "pcs", resolved |-> FALSE],
       [id |-> "i2", name |-> <<"Bread">>, quantity |-> 1, unit |-> "pcs", resolved |-> TRUE] >>

mockGet(dtoIn) ==
    IF Falsy(dtoIn.id)
    THEN Reply(400, buildResponse(EmptyObj,
             OneError("shoppingList/get/invalidId", "id is required.",
                      [id |-> dtoIn.id])))
    ELSE Reply(200, buildResponse(
             [awid |-> AWID, id |-> dtoIn.id, name |-> <<"Example", " ", "list">>,
              state |-> ACTIVE, ownerUuIdentity |-> "uu5:1234-5678",
              members |-> ExampleMembers, items |-> ExampleItems],
             EmptyObj))

\* Number(v).  A string is read character by character, whatever atoms it
\* was given in: StrWhiteSpace, an optional sign, then Infinity or decimal
\* digits with an optional fraction and exponent, or an unsigned 0x / 0o / 0b
\* literal; the empty string is 0 and anything else NaN.  The value is the
\* double nearest to the literal, ties to even: Finite(neg, m, e) is the
\* double m * 2^e, m odd or 0, m a natural of any size.

\* the characters of a string given in atoms
RECURSIVE Chars(_)
Chars(s) ==
    IF s = <<>> THEN <<>>
    ELSE IF Len(s) = 1
    THEN (IF s[1] \in EscapedWhite THEN s
          ELSE [i \in 1..Len(s[1]) |-> SubSeq(s[1], i, i)])
    ELSE Chars(SubSeq(s, 1, Len(s) \div 2)) \o Chars(SubSeq(s, Len(s) \div 2 + 1, Len(s)))

DigitChars ==
    <<"0", "1", "2", "3", "4", "5", "6", "7", "8", "9", "a", "b", "c", "d", "e", "f">>

UpperDigitChars ==
    <<"0", "1", "2", "3", "4", "5", "6", "7", "8", "9", "A", "B", "C", "D", "E", "F">>

IsDigitOf(c, radix) ==
    \E k \in 1..radix : DigitChars[k] = c \/ UpperDigitChars[k] = c

DigitValue(c) ==
    CHOOSE d \in 0..15 : DigitChars[d + 1] = c \/ UpperDigitChars[d + 1] = c

IsDigit(c) == IsDigitOf(c, 10)

AllDigits(s, radix) == \A i \in 1..Len(s) : IsDigitOf(s[i], radix)

\* the value of a few digits of a radix
RECURSIVE RadixValue(_, _)
RadixValue(s, radix) ==
    IF s = <<>> THEN 0
    ELSE radix * RadixValue(SubSeq(s, 1, Len(s) - 1), radix) + DigitValue(s[Len(s)])

DecimalValue(s) == RadixValue(s, 10)

RECURSIVE Pow(_, _)
Pow(b, n) == IF n = 0 THEN 1 ELSE b * Pow(b, n - 1)

\* A natural of any size is the sequence of its digits in base Base, the
\* lowest first, without high zeros; 0 is the empty sequence.
BaseDigits == 4

Base == Pow(10, BaseDigits)

Limb(a, i) == IF i <= Len(a) THEN a[i] ELSE 0

BigTrim(a) ==
    IF \E i \in 1..Len(a) : a[i] # 0
    THEN SubSeq(a, 1, CHOOSE i \in 1..Len(a) :
                          a[i] # 0 /\ \A j \in (i + 1)..Len(a) : a[j] = 0)
    ELSE <<>>

BigOfNat(k) == BigTrim(<<k % Base, (k \div Base) % Base, k \div (Base * Base)>>)

\* a + b: a carry enters digit i from the nearest lower digit that makes one,
\* through digits that pass it on
BigAdd(a, b) ==
    LET sum(i) == Limb(a, i) + Limb(b, i)
        carry(i) ==
            IF \E j \in 1..(i - 1) :
                   sum(j) >= Base /\ \A l \in (j + 1)..(i - 1) : sum(l) = Base - 1
            THEN 1 ELSE 0
        n == (IF Len(a) > Len(b) THEN Len(a) ELSE Len(b)) + 1
    IN  BigTrim([i \in 1..n |-> (sum(i) + carry(i)) % Base])

\* a - b, for a >= b
BigSub(a, b) ==
    LET borrow(i) ==
            IF \E j \in 1..(i - 1) :
                   a[j] < Limb(b, j) /\ \A l \in (j + 1)..(i - 1) : a[l] = Limb(b, l)
            THEN 1 ELSE 0
    IN  BigTrim([i \in 1..Len(a) |-> (a[i] + Base - Limb(b, i) - borrow(i)) % Base])

\* a * k + c, for k < Base and c < Base
BigMulAdd(a, k, c) ==
    LET low == [i \in 1..Len(a) |-> (a[i] * k) % Base]
        high == <<0>> \o [i \in 1..Len(a) |-> (a[i] * k) \div Base]
    IN  BigAdd(BigAdd(low, high), BigOfNat(c))

BigDouble(a) == BigAdd(a, a)

\* a < b
BigLess(a, b) ==
    \/ Len(a) < Len(b)
    \/ /\ Len(a) = Len(b)
       /\ \E i \in 1..Len(a) : a[i] < b[i] /\ \A j \in (i + 1)..Len(a) : a[j] = b[j]

BigEven(a) == a = <<>> \/ a[1] % 2 = 0

\* a / 2, for an even a
BigHalve(a) ==
    BigTrim([i \in 1..Len(a) |-> (a[i] \div 2) + (Limb(a, i + 1) % 2) * (Base \div 2)])

\* a * 2^n, by halves of n
RECURSIVE BigShift(_, _)
BigShift(a, n) ==
    IF a = <<>> THEN <<>>
    ELSE IF n > 13 THEN BigShift(BigShift(a, n \div 2), n - n \div 2)
    ELSE BigMulAdd(a, Pow(2, n), 0)

\* a * 10^n
BigTimesPow10(a, n) ==
    IF a = <<>> THEN <<>>
    ELSE [i \in 1..(n \div BaseDigits) |-> 0] \o BigMulAdd(a, Pow(10, n % BaseDigits), 0)

\* the number of decimal digits of a
DigitsOf(a) ==
    IF a = <<>> THEN 0
    ELSE BaseDigits * (Len(a) - 1)
         + (CHOOSE k \in 1..BaseDigits : Pow(10, k - 1) <= a[Len(a)] /\ a[Len(a)] < Pow(10, k))

\* the value of a sequence of decimal digits
BigOfDecimal(s) ==
    LET from(i) == IF Len(s) - BaseDigits * i + 1 > 1 THEN Len(s) - BaseDigits * i + 1 ELSE 1
    IN  BigTrim([i \in 1..((Len(s) + BaseDigits - 1) \div BaseDigits) |->
                    DecimalValue(SubSeq(s, from(i), Len(s) - BaseDigits * (i - 1)))])

\* the value of at most 53 bits, the highest first, twelve bits at a time
RECURSIVE BigOfBits(_)
BigOfBits(b) ==
    IF Len(b) <= 12 THEN BigOfNat(RadixValue(b, 2))
    ELSE BigMulAdd(BigOfBits(SubSeq(b, 1, Len(b) - 12)), Pow(2, 12),
                   RadixValue(SubSeq(b, Len(b) - 11, Len(b)), 2))

NaN == [nan |-> TRUE, inf |-> FALSE, neg |-> FALSE, m |-> <<>>, e |-> 0]

Infinity(neg) == [nan |-> FALSE, inf |-> TRUE, neg |-> neg, m |-> <<>>, e |-> 0]

\* the double m * 2^e, negative if neg (0 and -0 have m = 0)
RECURSIVE Finite(_, _, _)
Finite(neg, m, e) ==
    IF m = <<>> THEN [nan |-> FALSE, inf |-> FALSE, neg |-> neg, m |-> <<>>, e |-> 0]
    ELSE IF BigEven(m) THEN Finite(neg, BigHalve(m), e + 1)
    ELSE [nan |-> FALSE, inf |-> FALSE, neg |-> neg, m |-> m, e |-> e]

\* the doubles: a significand of 53 bits, exponents down to -1074 (the
\* subnormals), values below 2^1024
SignificandBits == 53

MinExponent == -1074

MaxExponent == 1024

\* the highest d that Scaled gives: no double has bits below 2^MinExponent
MaxScale == -MinExponent - (SignificandBits - 1)

\* a / p = (n / den) * 2^d with p <= a < 2p, or with a < p and d = MaxScale
RECURSIVE Scaled(_, _, _)
Scaled(a, p, d) ==
    IF ~BigLess(a, BigDouble(p)) THEN Scaled(a, BigDouble(p), d - 1)
    ELSE IF d < MaxScale /\ BigLess(a, p) THEN Scaled(BigDouble(a), p, d + 1)
    ELSE [a |-> a, p |-> p, d |-> d]

\* the first guess of Scaled, from the decimal lengths of n and den: the
\* quotient is between 10^(g - 1) and 10^(g + 1), and 2^3321 < 10^1000 < 2^3322
FirstScaled(n, den) ==
    LET g == DigitsOf(n) - DigitsOf(den)
        down == ((g - 1) * 3321) \div 1000
        up == ((1 - g) * 3322) \div 1000
        by == IF g >= 1 THEN -down ELSE IF up <= MaxScale THEN up ELSE MaxScale
    IN  Scaled(BigShift(n, IF by > 0 THEN by ELSE 0),
               BigShift(den, IF by < 0 THEN -by ELSE 0), by)

\* n more bits of the quotient of s.r by p, s.r < 2p: the quotient s.q and
\* what is left of s.r
RECURSIVE Quotient(_, _, _)
Quotient(s, p, n) ==
    IF n = 0 THEN s
    ELSE IF BigLess(s.r, p)
    THEN Quotient([q |-> BigDouble(s.q), r |-> BigDouble(s.r)], p, n - 1)
    ELSE Quotient([q |-> BigMulAdd(s.q, 2, 1), r |-> BigDouble(BigSub(s.r, p))], p, n - 1)

\* the quotient out rounded to the nearest of its two neighbours, ties to even
RoundedUp(p, out) ==
    BigAdd(out.q, IF BigLess(p, out.r) \/ (out.r = p /\ ~BigEven(out.q)) THEN <<1>> ELSE <<>>)

\* the double q * 2^-(d + 52), q of at most 53 bits or 2^53: Infinity from
\* 2^MaxExponent on
Double(neg, d, q) ==
    IF \/ -d >= MaxExponent
       \/ -d = MaxExponent - 1 /\ q = BigShift(<<1>>, SignificandBits)
    THEN Infinity(neg)
    ELSE Finite(neg, q, -(d + SignificandBits - 1))

Divided(neg, s) ==
    Double(neg, s.d,
           RoundedUp(s.p, Quotient([q |-> <<>>, r |-> s.a], s.p, SignificandBits)))

\* the double nearest to n / den, ties to even; an integer below 2^53 is a
\* double
RoundToDouble(neg, n, den) ==
    IF n = <<>> THEN Finite(neg, <<>>, 0)
    ELSE IF den = <<1>> /\ BigLess(n, BigShift(<<1>>, SignificandBits))
    THEN Finite(neg, n, 0)
    ELSE Divided(neg, FirstScaled(n, den))

\* s without its leading zeros
StripZeros(s) ==
    IF \E i \in 1..Len(s) : s[i] # "0"
    THEN SubSeq(s, CHOOSE i \in 1..Len(s) : s[i] # "0" /\ \A j \in 1..(i - 1) : s[j] = "0",
                Len(s))
    ELSE <<>>

\* the first position of s that holds a character of set, 0 if there is none
IndexOf(s, set) ==
    IF \E i \in 1..Len(s) : s[i] \in set
    THEN CHOOSE i \in 1..Len(s) : s[i] \in set /\ \A j \in 1..(i - 1) : s[j] \notin set
    ELSE 0

\* the double nearest to digits * 10^scale, digits without leading zeros.  A
\* literal of 10^309 or more is Infinity, one below 10^-324 is 0, without its
\* digits being read.
DecimalDouble(neg, digits, scale) ==
    IF digits = <<>> THEN Finite(neg, <<>>, 0)
    ELSE IF Len(digits) + scale > 309 THEN Infinity(neg)
    ELSE IF Len(digits) + scale <= -324 THEN Finite(neg, <<>>, 0)
    ELSE RoundToDouble(neg,
                       BigTimesPow10(BigOfDecimal(digits), IF scale > 0 THEN scale ELSE 0),
                       BigTimesPow10(<<1>>, IF scale < 0 THEN -scale ELSE 0))

\* the digits of a decimal literal, fracLen of them after the point, with the
\* exponent of digits expSig (no leading zeros) and sign expNeg; an exponent
\* of ten digits or more is beyond every double
ExponentOf(neg, digits, fracLen, expNeg, expSig) ==
    IF Len(expSig) > 9
    THEN (IF digits = <<>> \/ expNeg THEN Finite(neg, <<>>, 0) ELSE Infinity(neg))
    ELSE DecimalDouble(neg, digits,
                       (IF expNeg THEN -DecimalValue(expSig) ELSE DecimalValue(expSig))
                       - fracLen)

\* StrUnsignedDecimalLiteral body after the sign neg
DecimalLiteral(neg, body) ==
    LET k == IndexOf(body, {"e", "E"})
        mant == IF k = 0 THEN body ELSE SubSeq(body, 1, k - 1)
        expo == IF k = 0 THEN <<>> ELSE SubSeq(body, k + 1, Len(body))
        expNeg == expo # <<>> /\ expo[1] = "-"
        expDigits == IF expo # <<>> /\ expo[1] \in {"+", "-"} THEN Tail(expo) ELSE expo
        p == IndexOf(mant, {"."})
        ip == IF p = 0 THEN mant ELSE SubSeq(mant, 1, p - 1)
        fp == IF p = 0 THEN <<>> ELSE SubSeq(mant, p + 1, Len(mant))
    IN  IF body = <<"I", "n", "f", "i", "n", "i", "t", "y">> THEN Infinity(neg)
        ELSE IF \/ ~AllDigits(ip, 10)
                \/ ~AllDigits(fp, 10)
                \/ ip \o fp = <<>>
                \/ k # 0 /\ (expDigits = <<>> \/ ~AllDigits(expDigits, 10))
        THEN NaN
        ELSE ExponentOf(neg, StripZeros(ip \o fp), Len(fp), expNeg, StripZeros(expDigits))

\* the bits of a sequence of digits of radix 2, 8 or 16, the highest first
BitsOf(digits, radix) ==
    LET w == IF radix = 16 THEN 4 ELSE IF radix = 8 THEN 3 ELSE 1
        digit(i) == DigitValue(digits[(i - 1) \div w + 1])
        place(i) == Pow(2, w - 1 - ((i - 1) % w))
    IN  [i \in 1..(w * Len(digits)) |->
            IF (digit(i) \div place(i)) % 2 = 1 THEN "1" ELSE "0"]

\* the double nearest to the number of bits bits, the highest first and a 1:
\* up to 53 bits are a double; of more, bit 54 and the bits below it round
\* the first 53, ties to even
BinaryDouble(bits) ==
    IF Len(bits) <= SignificandBits THEN Finite(FALSE, BigOfBits(bits), 0)
    ELSE Double(FALSE, 1 - Len(bits),
                BigAdd(BigOfBits(SubSeq(bits, 1, SignificandBits)),
                       IF /\ bits[SignificandBits + 1] = "1"
                          /\ \/ bits[SignificandBits] = "1"
                             \/ \E i \in (SignificandBits + 2)..Len(bits) : bits[i] = "1"
                       THEN <<1>> ELSE <<>>))

\* NonDecimalIntegerLiteral: the digits after the prefix, in radix 2, 8 or 16
PrefixedLiteral(digits, radix) ==
    IF digits = <<>> \/ ~AllDigits(digits, radix) THEN NaN
    ELSE BinaryDouble(StripZeros(BitsOf(digits, radix)))

Number(v) ==
    IF v.t = "number" THEN RoundToDouble(FALSE, BigOfNat(v.n), <<1>>)
    ELSE IF v.t = "undefined" THEN NaN
    ELSE LET c == trim(Chars(v.s))
         IN  IF c = <<>> THEN Finite(FALSE, <<>>, 0)
             ELSE IF Len(c) >= 2 /\ c[1] = "0" /\ c[2] \in {"x", "X", "o", "O", "b", "B"}
             THEN PrefixedLiteral(SubSeq(c, 3, Len(c)),
                                  IF c[2] \in {"x", "X"} THEN 16
                                  ELSE IF c[2] \in {"o", "O"} THEN 8 ELSE 2)
             ELSE DecimalLiteral(c[1] = "-", IF c[1] \in {"+", "-"} THEN Tail(c) ELSE c)

\* a number as res.json writes it: JSON has no Infinity (null) and no -0 (0)
JsonNumber(x) ==
    IF x.inf THEN [null |-> TRUE, neg |-> FALSE, m |-> <<>>, e |-> 0]
    ELSE [null |-> FALSE, neg |-> x.neg /\ x.m # <<>>, m |-> x.m, e |-> x.e]

\* v ?? d
OrElse(v, d) == IF v.t = "undefined" THEN d ELSE v

MockItemList ==
    << [id |-> "list-1", name |-> <<"Saturday", " ", "Groceries">>, state |-> ACTIVE,
        ownerUuIdentity |-> "uu5:1234-5678", itemCount |-> 5],
       [id |-> "list-2", name |-> <<"Hiking", " ", "Trip">>, state |-> ACTIVE,
        ownerUuIdentity |-> "uu5:4444-1111", itemCount |-> 3] >>

\* the answer of list once pageIndex and pageSize are read
mockListPage(dtoIn, pageIndex, pageSize) ==
    IF pageIndex.nan \/ pageSize.nan
    THEN Reply(400, buildResponse(EmptyObj,
             OneError("shoppingList/list/invalidPageInfo",
                      "pageIndex and pageSize must be numbers.",
                      [pageIndex |-> dtoIn.pageIndex, pageSize |-> dtoIn.pageSize])))
    ELSE Reply(200, buildResponse(
             [itemList |-> MockItemList,
              pageInfo |-> [pageIndex |-> JsonNumber(pageIndex),
                            pageSize |-> JsonNumber(pageSize), total |-> 2]],
             EmptyObj))

mockList(dtoIn) ==
    mockListPage(dtoIn, Number(OrElse(dtoIn.pageIndex, Num(0))),
                 Number(OrElse(dtoIn.pageSize, Num(50))))

mockUpdate(user, dtoIn) ==
    IF ~hasAnyProfile(user.profiles, {PROFILES.OWNER, PROFILES.AUTHORITIES})
    THEN Reply(403, buildResponse(EmptyObj,
             OneError("shoppingList/update/unauthorized",
                      "User is not authorized to update the shopping list.", EmptyObj)))
    ELSE
        LET e1 == IF Falsy(dtoIn.id)
                  THEN OneError("shoppingList/update/invalidId", "id is required.",
                                [id |-> dtoIn.id])
                  ELSE EmptyObj
            e2 == IF RequiredNameInvalid(dtoIn.name)
                  THEN Put(e1, "shoppingList/update/invalidName",
                           buildError("shoppingList/update/invalidName",
                                      "name is required and must be a non-empty string.",
                                      [name |-> dtoIn.name]))
                  ELSE e1
        IN  IF HasKeys(e2)
            THEN Reply(400, buildResponse(EmptyObj, e2))
            ELSE Reply(200, buildResponse(
                     [awid |-> AWID, id |-> dtoIn.id, name |-> trim(dtoIn.name.s),
                      state |-> ACTIVE, ownerUuIdentity |-> user.uuIdentity],
                     EmptyObj))

mockDelete(user, dtoIn) ==
    IF ~hasAnyProfile(user.profiles, {PROFILES.OWNER, PROFILES.AUTHORITIES})
    THEN Reply(403, buildResponse(EmptyObj,
             OneError("shoppingList/delete/unauthorized",
                      "User is not authorized to delete the shopping list.", EmptyObj)))
    ELSE IF Falsy(dtoIn.id)
    THEN Reply(400, buildResponse(EmptyObj,
             OneError("shoppingList/delete/invalidId", "id is required.",
                      [id |-> dtoIn.id])))
    ELSE Reply(200, buildResponse([awid |-> AWID, id |-> dtoIn.id, deleted |-> TRUE],
                                  EmptyObj))

mockAddMember(user, dtoIn) ==
    IF ~hasAnyProfile(user.profiles, {PROFILES.OWNER, PROFILES.AUTHORITIES})
    THEN Reply(403, buildResponse(EmptyObj,
             OneError("shoppingList/addMember/unauthorized",
                      "User is not authorized to add members.", EmptyObj)))
    ELSE
        LET e1 == IF Falsy(dtoIn.listId)
                  THEN OneError("shoppingList/addMember/invalidListId",
                                "listId is required.", [listId |-> dtoIn.listId])
                  ELSE EmptyObj
            e2 == IF Falsy(dtoIn.uuIdentity) \/ ~IsString(dtoIn.uuIdentity)
                  THEN Put(e1, "shoppingList/addMember/invalidUuIdentity",
                           buildError("shoppingList/addMember/invalidUuIdentity",
                                      "uuIdentity is required and must be a string.",
                                      [uuIdentity |-> dtoIn.uuIdentity]))
                  ELSE e1
        IN  IF HasKeys(e2)
            THEN Reply(400, buildResponse(EmptyObj, e2))
            ELSE Reply(200, buildResponse(
                     [awid |-> AWID, listId |-> dtoIn.listId,
                      member |-> [uuIdentity |-> dtoIn.uuIdentity,
                                  role |-> IF Falsy(dtoIn.role) THEN Str(<<"member">>)
                                           ELSE dtoIn.role]],
                     EmptyObj))

mockRemoveMember(user, dtoIn) ==
    IF ~hasAnyProfile(user.profiles, {PROFILES.OWNER, PROFILES.AUTHORITIES})
    THEN Reply(403, buildResponse(EmptyObj,
             OneError("shoppingList/removeMember/unauthorized",
                      "User is not authorized to remove members.", EmptyObj)))
    ELSE
        LET e1 == IF Falsy(dtoIn.listId)
                  THEN OneError("shoppingList/removeMember/invalidListId",
                                "listId is required.", [listId |-> dtoIn.listId])
                  ELSE EmptyObj
            e2 == IF Falsy(dtoIn.uuIdentity)
                  THEN Put(e1, "shoppingList/removeMember/invalidUuIdentity",
                           buildError("shoppingList/removeMember/invalidUuIdentity",
                                      "uuIdentity is required.",
                                      [uuIdentity |-> dtoIn.uuIdentity]))
                  ELSE e1
        IN  IF HasKeys(e2)
            THEN Reply(400, buildResponse(EmptyObj, e2))
            ELSE Reply(200, buildResponse(
                     [awid |-> AWID, listId |-> dtoIn.listId,
                      removedUuIdentity |-> dtoIn.uuIdentity],
                     EmptyObj))

mockLeave(user, dtoIn) ==
    IF Falsy(dtoIn.listId)
    THEN Reply(400, buildResponse(EmptyObj,
             OneError("shoppingList/leave/invalidListId", "listId is required.",
                      [listId |-> dtoIn.listId])))
    ELSE Reply(200, buildResponse(
             [awid |-> AWID, listId |-> dtoIn.listId, leftUuIdentity |-> user.uuIdentity],
             EmptyObj))

----------------------------------------------------------------------------
\* The MongoDB server: the ShoppingList collection and the handlers over it.
\* A collection is a function from the _id of each stored document to the
\* document.

\* mongoose.isValidObjectId(id) of a path parameter: a string of hex digits
\* of an ObjectId's length
isValidObjectId(id) ==
    /\ id.t = "string"
    /\ Len(id.s) = 1
    /\ \E n \in DOMAIN Digits : Digits[n] = id.s[1]

\* the ObjectId a valid id string is cast to
ObjectIdOf(id) == CHOOSE n \in DOMAIN Digits : Digits[n] = id.s[1]

\* _id.toString()
OidToString(n) == <<Digits[n]>>

\* ShoppingListSchema / MemberSchema / ItemSchema validation of a document
SchemaValid(doc) ==
    /\ doc.name # <<>>
    /\ doc.state \in {ACTIVE, ARCHIVED}
    /\ doc.ownerUuIdentity # ""
    /\ \A i \in DOMAIN doc.members :
          doc.members[i].uuIdentity # "" /\ doc.members[i].role \in {"owner", "member"}
    /\ \A i \in DOMAIN doc.items : doc.items[i].name # <<>>

\* the _id the ItemSchema gives the i-th item of the document oid, as a string
ItemOid(oid, i) == <<Digits[oid], "-", Digits[i]>>

\* the items subdocuments as stored: each with its own _id
ItemsOf(oid, items) ==
    [i \in DOMAIN items |->
        [_id |-> ItemOid(oid, i), name |-> items[i].name, quantity |-> items[i].quantity,
         unit |-> items[i].unit, resolved |-> items[i].resolved]]

\* Mutant of ModelCreate: the document is stored without its members.
ModelCreateWithoutMembers(coll, oid, fields, now) ==
    [k \in DOMAIN coll \cup {oid} |->
        IF k = oid
        THEN [_id |-> oid, name |-> fields.name, state |-> fields.state,
              ownerUuIdentity |-> fields.ownerUuIdentity,
              members |-> <<>>, items |-> ItemsOf(oid, fields.items),
              createdAt |-> now, updatedAt |-> now, __v |-> 0]
        ELSE coll[k]]

\* ShoppingList.create(fields) at time now: the stored document, with its
\* fresh _id, the createdAt and updatedAt of { timestamps: true } and the
\* version key __v
ModelCreate(coll, oid, fields, now) ==
    [k \in DOMAIN coll \cup {oid} |->
        IF k = oid
        THEN [_id |-> oid, name |-> fields.name, state |-> fields.state,
              ownerUuIdentity |-> fields.ownerUuIdentity,
              members |-> fields.members, items |-> ItemsOf(oid, fields.items),
              createdAt |-> now, updatedAt |-> now, __v |-> 0]
        ELSE coll[k]]

\* ShoppingList.findById(id).lean(): the document or null
Null == [_id |-> 0]

\* !list
IsNull(list) == list._id = 0

\* Mutant of findById: the id is not used as the filter (findOne()).
findAnyOne(coll, oid) ==
    IF DOMAIN coll = {} THEN Null
    ELSE coll[CHOOSE k \in DOMAIN coll : \A j \in DOMAIN coll : k <= j]

findById(coll, oid) == IF oid \in DOMAIN coll THEN coll[oid] ELSE Null

\* Mutant of findByIdAndUpdate: with upsert, a document that is not there is
\* made from updates and the schema's defaults.
findByIdAndUpsert(coll, oid, updates, now) ==
    IF oid \notin DOMAIN coll
    THEN [k \in DOMAIN coll \cup {oid} |->
            IF k = oid
            THEN [_id |-> oid,
                  name |-> IF "name" \in DOMAIN updates THEN updates.name ELSE <<>>,
                  state |-> IF "state" \in DOMAIN updates THEN updates.state ELSE ACTIVE,
                  ownerUuIdentity |-> "", members |-> <<>>, items |-> <<>>,
                  createdAt |-> now, updatedAt |-> now, __v |-> 0]
            ELSE coll[k]]
    ELSE [coll EXCEPT ![oid] =
            [f \in DOMAIN coll[oid] |->
                IF f = "updatedAt" THEN now
                ELSE IF f \in DOMAIN updates THEN updates[f] ELSE coll[oid][f]]]

\* Mutant of findByIdAndUpdate: a schema without timestamps, updatedAt is
\* not written.
findByIdAndSet(coll, oid, updates, now) ==
    IF oid \notin DOMAIN coll THEN coll
    ELSE [coll EXCEPT ![oid] =
            [f \in DOMAIN coll[oid] |->
                IF f \in DOMAIN updates THEN updates[f] ELSE coll[oid][f]]]

\* the collection after findByIdAndUpdate(id, updates) at time now: $set of
\* the given fields and, by { timestamps: true }, of updatedAt, on the
\* document of that id if there is one; createdAt and __v are not written
findByIdAndUpdate(coll, oid, updates, now) ==
    IF oid \notin DOMAIN coll THEN coll
    ELSE [coll EXCEPT ![oid] =
            [f \in DOMAIN coll[oid] |->
                IF f = "updatedAt" THEN now
                ELSE IF f \in DOMAIN updates THEN updates[f] ELSE coll[oid][f]]]

\* Mutant of findByIdAndDelete: the document is found but not removed.
findByIdAndKeep(coll, oid) == coll

\* the collection after findByIdAndDelete(id)
findByIdAndDelete(coll, oid) == [k \in DOMAIN coll \ {oid} |-> coll[k]]

\* ShoppingList.find().lean(): every document, in _id order
RECURSIVE find(_)
find(coll) ==
    IF DOMAIN coll = {} THEN <<>>
    ELSE LET last == CHOOSE k \in DOMAIN coll : \A j \in DOMAIN coll : j <= k
         IN  Append(find([k \in DOMAIN coll \ {last} |-> coll[k]]), coll[last])

\* the 500 answer of a handler's catch block
failed(key, message) ==
    Reply(500, buildResponse(EmptyObj, Put(EmptyObj, key, FailedEntry(message))))

\* the entry of an invalidId / notFound / invalidName / invalidState answer
entry(message, paramMap) == [type |-> "error", message |-> message, paramMap |-> paramMap]

\* the dtoOut of get, create and update
listDtoOut(list) ==
    [id |-> OidToString(list._id), name |-> list.name, state |-> list.state,
     ownerUuIdentity |-> list.ownerUuIdentity, members |-> list.members,
     items |-> list.items]

\* Mutant of listEntry: itemCount taken from the members array.
listEntryCountingMembers(l) ==
    [id |-> OidToString(l._id), name |-> l.name, state |-> l.state,
     ownerUuIdentity |-> l.ownerUuIdentity, itemCount |-> Len(l.members)]

\* one itemList entry of list
listEntry(l) ==
    [id |-> OidToString(l._id), name |-> l.name, state |-> l.state,
     ownerUuIdentity |-> l.ownerUuIdentity, itemCount |-> Len(l.items)]

\* GET /shoppingList/list; threw: the store operation threw
dbList(coll, threw) ==
    IF threw
    THEN [reply |-> failed("shoppingList/list/failed",
                           "Unexpected error while listing shopping lists."),
          coll |-> coll]
    ELSE [reply |-> Reply(200, buildResponse(
                       [itemList |-> [i \in DOMAIN find(coll) |-> listEntry(find(coll)[i])]],
                       EmptyObj)),
          coll |-> coll]

\* GET /shoppingList/get/:id
dbGet(coll, id, threw) ==
    IF ~isValidObjectId(id)
    THEN [reply |-> Reply(400, buildResponse(EmptyObj,
                       Put(EmptyObj, "shoppingList/get/invalidId",
                           entry("id is not a valid ObjectId.", [id |-> id])))),
          coll |-> coll]
    ELSE IF threw
    THEN [reply |-> failed("shoppingList/get/failed",
                           "Unexpected error while getting shopping list."),
          coll |-> coll]
    ELSE LET list == findById(coll, ObjectIdOf(id))
         IN  IF IsNull(list)
             THEN [reply |-> Reply(404, buildResponse(EmptyObj,
                                Put(EmptyObj, "shoppingList/get/notFound",
                                    entry("Shopping list not found.", [id |-> id])))),
                   coll |-> coll]
             ELSE [reply |-> Reply(200, buildResponse(listDtoOut(list), EmptyObj)),
                   coll |-> coll]

\* POST /shoppingList/create; oid: the _id the store gives the new document,
\* now: the time the model read
dbCreate(coll, oid, name, now, threw) ==
    IF RequiredNameInvalid(name)
    THEN [reply |-> Reply(400, buildResponse(EmptyObj,
                       Put(EmptyObj, "shoppingList/create/invalidName",
                           entry("name is required and must be a non-empty string.",
                                 [name |-> name])))),
          coll |-> coll]
    ELSE
        LET fields == [name |-> trim(name.s), state |-> ACTIVE,
                       ownerUuIdentity |-> MOCK_OWNER,
                       members |-> <<[uuIdentity |-> MOCK_OWNER, role |-> "owner"]>>,
                       items |-> <<>>]
        IN  IF threw \/ ~SchemaValid(fields)
            THEN [reply |-> failed("shoppingList/create/failed",
                                   "Unexpected error while creating shopping list."),
                  coll |-> coll]
            ELSE [reply |-> Reply(201, buildResponse(
                               listDtoOut(ModelCreate(coll, oid, fields, now)[oid]), EmptyObj)),
                  coll |-> ModelCreate(coll, oid, fields, now)]

\* Mutant of OptionalNameInvalid: the name check is left out.
NameNeverInvalid(name) == FALSE

\* name !== undefined && (typeof name !== "string" || !name.trim())
OptionalNameInvalid(name) ==
    name.t # "undefined" /\ (~IsString(name) \/ trim(name.s) = <<>>)

\* Mutant of OptionalStateInvalid: the state check is left out.
StateNeverInvalid(state) == FALSE

\* state !== undefined && !["active", "archived"].includes(state)
OptionalStateInvalid(state) ==
    state.t # "undefined" /\ ~(IsString(state) /\ state.s \in {ACTIVE, ARCHIVED})

\* Mutant of updatesOf: the name is stored as given, not trimmed.
updatesUntrimmed(name, state) ==
    LET u1 == IF name.t # "undefined" THEN Put(EmptyObj, "name", name.s)
              ELSE EmptyObj
    IN  IF state.t # "undefined" THEN Put(u1, "state", state.s) ELSE u1

\* the updates object of update: only the supplied fields
updatesOf(name, state) ==
    LET u1 == IF name.t # "undefined" THEN Put(EmptyObj, "name", trim(name.s))
              ELSE EmptyObj
    IN  IF state.t # "undefined" THEN Put(u1, "state", state.s) ELSE u1

\* PUT /shoppingList/update/:id; now: the time the model read
dbUpdate(coll, id, name, state, now, threw) ==
    LET e1 == IF ~isValidObjectId(id)
              THEN Put(EmptyObj, "shoppingList/update/invalidId",
                       entry("id is not a valid ObjectId.", [id |-> id]))
              ELSE EmptyObj
        e2 == IF OptionalNameInvalid(name)
              THEN Put(e1, "shoppingList/update/invalidName",
                       entry("name must be a non-empty string, if provided.",
                             [name |-> name]))
              ELSE e1
        e3 == IF OptionalStateInvalid(state)
              THEN Put(e2, "shoppingList/update/invalidState",
                       entry("state must be 'active' or 'archived', if provided.",
                             [state |-> state]))
              ELSE e2
    IN  IF HasKeys(e3)
        THEN [reply |-> Reply(400, buildResponse(EmptyObj, e3)), coll |-> coll]
        ELSE IF threw
        THEN [reply |-> failed("shoppingList/update/failed",
                               "Unexpected error while updating shopping list."),
              coll |-> coll]
        ELSE LET after == findByIdAndUpdate(coll, ObjectIdOf(id),
                                            updatesOf(name, state), now)
                 list == findById(after, ObjectIdOf(id))
             IN  IF IsNull(list)
                 THEN [reply |-> Reply(404, buildResponse(EmptyObj,
                                    Put(EmptyObj, "shoppingList/update/notFound",
                                        entry("Shopping list not found.", [id |-> id])))),
                       coll |-> after]
                 ELSE [reply |-> Reply(200, buildResponse(listDtoOut(list), EmptyObj)),
                       coll |-> after]

\* DELETE /shoppingList/delete/:id
dbDelete(coll, id, threw) ==
    IF ~isValidObjectId(id)
    THEN [reply |-> Reply(400, buildResponse(EmptyObj,
                       Put(EmptyObj, "shoppingList/delete/invalidId",
                           entry("id is not a valid ObjectId.", [id |-> id])))),
          coll |-> coll]
    ELSE IF threw
    THEN [reply |-> failed("shoppingList/delete/failed",
                           "Unexpected error while deleting shopping list."),
          coll |-> coll]
    ELSE LET list == findById(coll, ObjectIdOf(id))
         IN  IF IsNull(list)
             THEN [reply |-> Reply(404, buildResponse(EmptyObj,
                                Put(EmptyObj, "shoppingList/delete/notFound",
                                    entry("Shopping list not found.", [id |-> id])))),
                   coll |-> findByIdAndDelete(coll, ObjectIdOf(id))]
             ELSE [reply |-> Reply(200, buildResponse(
                                [id |-> OidToString(list._id), deleted |-> TRUE], EmptyObj)),
                   coll |-> findByIdAndDelete(coll, ObjectIdOf(id))]


----------------------------------------------------------------------------
\* State: which of the two programs runs, the ShoppingList collection, the
\* next ObjectId the store mints, and the requests in progress, each with
\* the position its handler has reached.  created records, for each document
\* made by the create handler, the name the request gave, until the store
\* runs an update or a delete of that id.  clock is the time the model read
\* last for a timestamp.

VARIABLES server, store, nextOid, created, flight, clock

vars == <<server, store, nextOid, created, flight, clock>>

\* the fields a handler reads from req.body, req.query and req.params
NoDto ==
    [id |-> Undefined, name |-> Undefined, state |-> Undefined,
     listId |-> Undefined, uuIdentity |-> Undefined, role |-> Undefined,
     pageIndex |-> Undefined, pageSize |-> Undefined]

\* req.user as the mock middleware sets it; the MongoDB server has none
UserWith(profiles) == [uuIdentity |-> MOCK_USER, profiles |-> profiles]

NoUser == [uuIdentity |-> "", profiles |-> {}]

\* Inputs.  The middleware gives every request the profiles User and
\* ShoppingListOwner and invites to adjust them: every set of profiles.
ProfileSets == SUBSET AllProfiles

NameInputs ==
    {Undefined, Num(5), Str(<<>>), Str(<<" ">>), Str(<<VT>>), Str(<<"Milk">>),
     Str(<<VT, "Eggs", " ">>)}

StateInputs == {Undefined, Str(ACTIVE), Str(ARCHIVED), Str(<<"deleted">>)}

BodyIdInputs == {Undefined, Str(<<>>), Str(<<"1">>), Num(0), Num(5)}

\* query parameters: absent, empty, and numerals that Number reads or rejects,
\* one of them below every double and one above
QueryInputs ==
    {Undefined, Str(<<>>), Str(<<"2">>), Str(<<VT, "1", "0", " ">>), Str(<<"a">>),
     Str(<<"-1">>), Str(<<"1.5">>), Str(<<"0x10">>), Str(<<"Infinity">>),
     Str(<<"1e-400">>), Str(<<"1e309">>)}

IdentityInputs == {Undefined, Str(<<>>), Str(<<"uu5:8765-4321">>), Num(5)}

RoleInputs == {Undefined, Str(<<"owner">>)}

\* path parameters: the id strings of the ObjectIds of a run (an id names no
\* document until the store mints it) and one that is no ObjectId
PathIds == {Str(OidToString(n)) : n \in 1..MaxOid} \cup {Str(<<"x">>)}

\* the names sent to the create of the MongoDB server
CreateNames ==
    {Undefined, Num(5), Str(<<>>), Str(<<" ", NBSP>>), Str(<<VT, "Eggs", " ">>)}

\* the bodies sent to the update of the MongoDB server: name and state
UpdateBodies ==
    { <<Str(<<VT, "Eggs", " ">>), Undefined>>, <<Undefined, Str(ARCHIVED)>>,
      <<Undefined, Str(<<"deleted">>)>>, <<Str(<<VT>>), Undefined>>,
      <<Num(5), Str(<<"deleted">>)>> }

\* values of Date.now() and of the time the model reads for its timestamps
Clock == {1, 2}

\* documents inserted straight through the model, as the tests do
FixtureDocs ==
    { [name |-> <<"List", " ", "A">>, state |-> ACTIVE,
       ownerUuIdentity |-> "uu5:1234-5678",
       members |-> <<[uuIdentity |-> "uu5:1234-5678", role |-> "owner"]>>,
       items |-> <<>>],
      [name |-> <<" ", "Hiking", " ", "Trip">>, state |-> ARCHIVED,
       ownerUuIdentity |-> "uu5:4444-1111",
       members |-> <<[uuIdentity |-> "uu5:4444-1111", role |-> "owner"],
                     [uuIdentity |-> "uu5:1234-5678", role |-> "member"]>>,
       items |-> <<[name |-> <<"Milk">>, quantity |-> 2, unit |-> "pcs", resolved |-> FALSE],
                   [name |-> <<"Bread">>, quantity |-> 1, unit |-> "pcs", resolved |-> TRUE]>>] }

NoReply == Reply(0, EmptyObj)

\* the requests a server can have in progress at once
Slots == {1, 2}

\* nothing known of the other request in progress
NoPrior == [cmd |-> "none", threw |-> FALSE, result |-> NoReply]

\* a slot without a request.  pc is the position of the handler; now is the
\* time read for the request (Date.now() of the mock create, the time of
\* the model's timestamps), 0 if it reads none; ops counts
\* the store operations it issued; threw and result are what the store made
\* of its operation, result in the form of the answer the handler builds
\* from it; reply is the answer sent.  found and prior record the overlap
\* of an update or delete with another one of the same id: found, whether
\* the store held the document when it ran the operation; prior, what the
\* store made of the operation of the other request, if it ran that one
\* first, on a stored document, and before this request was answered; prior
\* is kept until the store runs the request's own operation.
FreeSlot ==
    [pc |-> "Free", cmd |-> "none", user |-> NoUser, dtoIn |-> NoDto, now |-> 0,
     ops |-> 0, threw |-> FALSE, result |-> NoReply, reply |-> NoReply,
     found |-> FALSE, prior |-> NoPrior]

Init ==
    /\ server \in {"mock", "db"}
    /\ store = EmptyObj
    /\ nextOid = 1
    /\ created = EmptyObj
    /\ flight = [s \in Slots |-> FreeSlot]
    /\ clock = 1

\* no handler is running: every request in progress awaits the store or the
\* continuation of its handler
Quiet == \A s \in Slots : flight[s].pc \in {"Free", "Awaiting", "Served"}

\* no request is in progress
NoneInFlight == \A s \in Slots : flight[s].pc = "Free"

\* Express can call a handler
CanCall == Quiet /\ \E s \in Slots : flight[s].pc = "Free"

\* the slot of the next request
NextSlot ==
    CHOOSE s \in Slots :
        flight[s].pc = "Free" /\ \A t \in Slots : t < s => flight[t].pc # "Free"

\* the mock server is ready for a request
MockReady == server = "mock" /\ CanCall

\* the MongoDB server is ready for a request
DbReady == server = "db" /\ CanCall

\* the ObjectId that the update or delete r names, 0 if r is no such request
Touched(r) ==
    IF r.cmd \in {"update", "delete"} /\ isValidObjectId(r.dtoIn.id)
    THEN ObjectIdOf(r.dtoIn.id)
    ELSE 0

\* what the store made of the operation of the request in slot t, for a
\* request r called now: it ran on the stored document that r names
PriorOf(t, r) ==
    IF flight[t].pc = "Served" /\ flight[t].found /\ Touched(flight[t]) = Touched(r)
    THEN [cmd |-> flight[t].cmd, threw |-> flight[t].threw, result |-> flight[t].result]
    ELSE NoPrior

\* the slot of the other request
Other(s) == CHOOSE t \in Slots : t # s

\* Express calls the handler of a request
Call(cmd, user, dtoIn, now) ==
    /\ flight' =
         [t \in Slots |->
            IF t = NextSlot
            THEN [FreeSlot EXCEPT
                    !.pc = "Received", !.cmd = cmd, !.user = user, !.dtoIn = dtoIn,
                    !.now = now,
                    !.prior = PriorOf(Other(t), [cmd |-> cmd, dtoIn |-> dtoIn])]
            ELSE flight[t]]
    /\ UNCHANGED <<server, store, nextOid, created, clock>>

MockCreate ==
    /\ MockReady
    /\ \E p \in ProfileSets, name \in NameInputs, now \in Clock :
           Call("create", UserWith(p), [NoDto EXCEPT !.name = name], now)

MockGet ==
    /\ MockReady
    /\ \E p \in ProfileSets, id \in QueryInputs :
           Call("get", UserWith(p), [NoDto EXCEPT !.id = id], 0)

MockList ==
    /\ MockReady
    /\ \E p \in ProfileSets, pageIndex \in QueryInputs, pageSize \in QueryInputs :
           Call("list", UserWith(p),
                [NoDto EXCEPT !.pageIndex = pageIndex, !.pageSize = pageSize], 0)

MockUpdate ==
    /\ MockReady
    /\ \E p \in ProfileSets, id \in BodyIdInputs, name \in NameInputs, state \in StateInputs :
           Call("update", UserWith(p),
                [NoDto EXCEPT !.id = id, !.name = name, !.state = state], 0)

MockDelete ==
    /\ MockReady
    /\ \E p \in ProfileSets, id \in BodyIdInputs :
           Call("delete", UserWith(p), [NoDto EXCEPT !.id = id], 0)

MockAddMember ==
    /\ MockReady
    /\ \E p \in ProfileSets, listId \in BodyIdInputs, uuIdentity \in IdentityInputs,
          role \in RoleInputs :
           Call("addMember", UserWith(p),
                [NoDto EXCEPT !.listId = listId, !.uuIdentity = uuIdentity, !.role = role], 0)

MockRemoveMember ==
    /\ MockReady
    /\ \E p \in ProfileSets, listId \in BodyIdInputs, uuIdentity \in IdentityInputs :
           Call("removeMember", UserWith(p),
                [NoDto EXCEPT !.listId = listId, !.uuIdentity = uuIdentity], 0)

MockLeave ==
    /\ MockReady
    /\ \E p \in ProfileSets, listId \in BodyIdInputs :
           Call("leave", UserWith(p), [NoDto EXCEPT !.listId = listId], 0)

DbList ==
    /\ DbReady
    /\ Call("list", NoUser, NoDto, 0)

DbGet ==
    /\ DbReady
    /\ \E id \in PathIds : Call("get", NoUser, [NoDto EXCEPT !.id = id], 0)

\* the creates in progress that will ask the store for a document
PendingCreates ==
    Cardinality({t \in Slots : /\ flight[t].cmd = "create"
                               /\ flight[t].pc = "Awaiting"})

DbCreate ==
    /\ DbReady
    /\ \E name \in CreateNames :
           /\ ~RequiredNameInvalid(name) => nextOid + PendingCreates <= MaxOid
           /\ Call("create", NoUser, [NoDto EXCEPT !.name = name], 0)

DbUpdate ==
    /\ DbReady
    /\ \E id \in PathIds, b \in UpdateBodies :
           Call("update", NoUser, [NoDto EXCEPT !.id = id, !.name = b[1], !.state = b[2]], 0)

DbDelete ==
    /\ DbReady
    /\ \E id \in PathIds : Call("delete", NoUser, [NoDto EXCEPT !.id = id], 0)

\* the handler of r run over the collection coll: its answer and the
\* collection after it
Handle(srv, r, coll, oid, threw) ==
    IF srv = "mock"
    THEN [reply |->
            CASE r.cmd = "create" -> mockCreate(r.user, r.dtoIn, r.now)
              [] r.cmd = "get" -> mockGet(r.dtoIn)
              [] r.cmd = "list" -> mockList(r.dtoIn)
              [] r.cmd = "update" -> mockUpdate(r.user, r.dtoIn)
              [] r.cmd = "delete" -> mockDelete(r.user, r.dtoIn)
              [] r.cmd = "addMember" -> mockAddMember(r.user, r.dtoIn)
              [] r.cmd = "removeMember" -> mockRemoveMember(r.user, r.dtoIn)
              [] r.cmd = "leave" -> mockLeave(r.user, r.dtoIn),
          coll |-> coll]
    ELSE CASE r.cmd = "list" -> dbList(coll, threw)
           [] r.cmd = "get" -> dbGet(coll, r.dtoIn.id, threw)
           [] r.cmd = "create" -> dbCreate(coll, oid, r.dtoIn.name, r.now, threw)
           [] r.cmd = "update" -> dbUpdate(coll, r.dtoIn.id, r.dtoIn.name, r.dtoIn.state,
                                           r.now, threw)
           [] r.cmd = "delete" -> dbDelete(coll, r.dtoIn.id, threw)

\* const dtoIn = ..., const errorMap = {}: the handler starts
Enter ==
    \E s \in Slots :
        /\ flight[s].pc = "Received"
        /\ flight' = [flight EXCEPT ![s].pc = "Authorizing"]
        /\ UNCHANGED <<server, store, nextOid, created, clock>>

\* if (!hasAnyProfile(req, [...])) return res.status(403)...; a handler
\* without this statement goes on
Authorize ==
    \E s \in Slots :
        /\ flight[s].pc = "Authorizing"
        /\ LET reply == Handle(server, flight[s], store, nextOid, FALSE).reply
           IN  flight' = [flight EXCEPT ![s] =
                   IF reply.status = 403
                   THEN [@ EXCEPT !.pc = "Responded", !.reply = reply]
                   ELSE [@ EXCEPT !.pc = "Validating"]]
        /\ UNCHANGED <<server, store, nextOid, created, clock>>

\* the field checks; if any failed, return res.status(400)...; a handler
\* without checks goes on
Validate ==
    \E s \in Slots :
        /\ flight[s].pc = "Validating"
        /\ LET reply == Handle(server, flight[s], store, nextOid, FALSE).reply
           IN  flight' = [flight EXCEPT ![s] =
                   IF reply.status = 400
                   THEN [@ EXCEPT !.pc = "Responded", !.reply = reply]
                   ELSE [@ EXCEPT !.pc = "Executing"]]
        /\ UNCHANGED <<server, store, nextOid, created, clock>>

\* a handler of the mock server builds its dtoOut and answers
Execute ==
    \E s \in Slots :
        /\ server = "mock"
        /\ flight[s].pc = "Executing"
        /\ flight' = [flight EXCEPT ![s] =
               [@ EXCEPT !.pc = "Responded",
                         !.reply = Handle(server, flight[s], store, nextOid, FALSE).reply]]
        /\ UNCHANGED <<server, store, nextOid, created, clock>>

\* the operation of r stamps a document: create and findByIdAndUpdate
Stamped(r) == r.cmd \in {"create", "update"}

\* the times the model can read for the operation of r: the current time,
\* which is not before the time read last; an operation that stamps no
\* document reads no time
TimesRead(r) == IF Stamped(r) THEN {t \in Clock : t >= clock} ELSE {clock}

\* a handler of the MongoDB server calls the model and awaits: the model
\* reads the time for its timestamps, the store operation is issued and the
\* handler returns to the event loop, unanswered
Issue ==
    \E s \in Slots :
        /\ server = "db"
        /\ flight[s].pc = "Executing"
        /\ \E now \in TimesRead(flight[s]) :
               /\ flight' = [flight EXCEPT ![s] =
                      [@ EXCEPT !.pc = "Awaiting", !.ops = @ + 1,
                                !.now = IF Stamped(flight[s]) THEN now ELSE @]]
               /\ clock' = now
        /\ UNCHANGED <<server, store, nextOid, created>>

\* the store runs the operation of a waiting request, atomically, or fails
\* (threw); the handler has not yet resumed
Serve ==
    /\ Quiet
    /\ \E s \in Slots, threw \in BOOLEAN :
        /\ flight[s].pc = "Awaiting"
        /\ LET out == Handle(server, flight[s], store, nextOid, threw)
               found == Touched(flight[s]) \in DOMAIN store
               mine == [cmd |-> flight[s].cmd, threw |-> threw, result |-> out.reply]
           IN  /\ flight' =
                    [t \in Slots |->
                        IF t = s
                        THEN [flight[t] EXCEPT !.pc = "Served", !.threw = threw,
                                               !.result = out.reply, !.found = found,
                                               !.prior = NoPrior]
                        ELSE IF /\ flight[t].pc = "Awaiting"
                                /\ found
                                /\ Touched(flight[t]) = Touched(flight[s])
                        THEN [flight[t] EXCEPT !.prior = mine]
                        ELSE flight[t]]
               /\ store' = out.coll
               /\ nextOid' = IF DOMAIN out.coll \subseteq DOMAIN store
                             THEN nextOid ELSE nextOid + 1
               /\ created' =
                    IF flight[s].cmd = "create" /\ out.reply.status = 201
                    THEN Put(created, nextOid, flight[s].dtoIn.name)
                    ELSE [k \in DOMAIN created \ {Touched(flight[s])} |-> created[k]]
        /\ UNCHANGED <<server, clock>>

\* the handler resumes after its await and answers: from the result of the
\* store operation, or from its catch block
Continue ==
    /\ Quiet
    /\ \E s \in Slots :
        /\ flight[s].pc = "Served"
        /\ flight' = [flight EXCEPT ![s] = [@ EXCEPT !.pc = "Responded", !.reply = flight[s].result]]
        /\ UNCHANGED <<server, store, nextOid, created, clock>>

\* the answer is sent and the request is over
Finish ==
    \E s \in Slots :
        /\ flight[s].pc = "Responded"
        /\ flight' = [flight EXCEPT ![s] = FreeSlot]
        /\ UNCHANGED <<server, store, nextOid, created, clock>>

\* a test inserts a document through the model, not through a handler, into
\* the collection its beforeEach emptied, before it sends its request
InsertFixture ==
    /\ server = "db"
    /\ NoneInFlight
    /\ store = EmptyObj
    /\ nextOid <= MaxOid
    /\ \E doc \in FixtureDocs, now \in Clock :
           /\ SchemaValid(doc)
           /\ now >= clock
           /\ store' = ModelCreate(store, nextOid, doc, now)
           /\ nextOid' = nextOid + 1
           /\ clock' = now
           /\ UNCHANGED <<server, created, flight>>

\* ShoppingList.deleteMany({}): the beforeEach of the tests empties the
\* collection between two tests
DeleteMany ==
    /\ server = "db"
    /\ NoneInFlight
    /\ store' = EmptyObj
    /\ created' = EmptyObj
    /\ UNCHANGED <<server, nextOid, flight, clock>>

\* the requests of the mock server
NextMock ==
    \/ MockCreate
    \/ MockGet
    \/ MockList
    \/ MockUpdate
    \/ MockDelete
    \/ MockAddMember
    \/ MockRemoveMember
    \/ MockLeave

\* the requests of the MongoDB server
NextDb ==
    \/ DbList
    \/ DbGet
    \/ DbCreate
    \/ DbUpdate
    \/ DbDelete

\* the steps of the handlers and of the store
NextSteps ==
    \/ Enter
    \/ Authorize
    \/ Validate
    \/ Execute
    \/ Issue
    \/ Serve
    \/ Continue
    \/ Finish

NextRequests == NextMock \/ NextDb \/ NextSteps

\* both servers, the collection changed by requests only, from empty
SpecRequests == Init /\ [][NextRequests]_vars

Next == NextRequests \/ InsertFixture \/ DeleteMany

\* both servers, the collection also emptied and filled by the tests
Spec == Init /\ [][Next]_vars

----------------------------------------------------------------------------
\* Properties.  What a property expects is written from the specification
\* (its tables of roles, keys and status codes), not from the handlers.

\* the request in slot s is answered: its handler has sent reply
Answered(s) == flight[s].pc = "Responded"

\* what is settled of the answer of request r: the answer sent, or the one
\* the result of its store operation stands for
Outcome(r) == IF r.pc = "Served" THEN r.result ELSE r.reply

\* this step settles the answer of the request in slot s: its handler
\* rejects it or answers without the store, or the store runs its operation
Decided(s) == Outcome(flight[s]) = NoReply /\ Outcome(flight'[s]) # NoReply

\* the keys of the response's error map
ErrorKeys(r) == DOMAIN r.body.uuAppErrorMap

Is2xx(status) == status \in 200..299

\* y is x without its leading and trailing whitespace
IsTrimOf(x, y) ==
    \E i \in 1..(Len(x) + 1), j \in 0..Len(x) :
        /\ y = SubSeq(x, i, j)
        /\ \A k \in 1..(i - 1) : x[k] \in WhiteSpace
        /\ \A k \in (j + 1)..Len(x) : x[k] \in WhiteSpace
        /\ y # <<>> => (y[1] \notin WhiteSpace /\ y[Len(y)] \notin WhiteSpace)

\* a name the specification accepts: a string that is non-empty after trimming
GoodName(v) == v.t = "string" /\ \E k \in 1..Len(v.s) : v.s[k] \notin WhiteSpace

\* C1: every response of every handler carries uuAppErrorMap, and its status
\* is 2xx exactly when that map is empty.
C1_ErrorMapEmptyIffSuccess ==
    \A s \in Slots :
        Answered(s) =>
            /\ "uuAppErrorMap" \in DOMAIN flight[s].reply.body
            /\ Is2xx(flight[s].reply.status) <=> (ErrorKeys(flight[s].reply) = {})

\* C1 witness: a store failure, answered 500 with a non-empty map.
C1_Witness ==
    \E s \in Slots :
        /\ Answered(s)
        /\ flight[s].threw
        /\ flight[s].reply.status = 500
        /\ ErrorKeys(flight[s].reply) # {}

\* the role-gated commands and the roles the specification requires of each
GatedCommands == {"create", "update", "delete", "addMember", "removeMember"}

RequiredRoles ==
    [create |-> {"User", "Authorities"},
     update |-> {"ShoppingListOwner", "Authorities"},
     delete |-> {"ShoppingListOwner", "Authorities"},
     addMember |-> {"ShoppingListOwner", "Authorities"},
     removeMember |-> {"ShoppingListOwner", "Authorities"}]

UnauthorizedKey ==
    [create |-> "shoppingList/create/unauthorized",
     update |-> "shoppingList/update/unauthorized",
     delete |-> "shoppingList/delete/unauthorized",
     addMember |-> "shoppingList/addMember/unauthorized",
     removeMember |-> "shoppingList/removeMember/unauthorized"]

\* C2: a role-gated command is answered 403 exactly when the caller's roles
\* and the command's required roles are disjoint; the 403 answer's map holds
\* the single key <command>/unauthorized and the store is unchanged.
C2_UnauthorizedIffNoRole ==
    [][ \A s \in Slots :
          (server = "mock" /\ Decided(s) /\ flight'[s].cmd \in GatedCommands) =>
              LET r == flight'[s]
              IN  /\ (r.reply.status = 403) <=>
                         (r.user.profiles \cap RequiredRoles[r.cmd] = {})
                  /\ (r.reply.status = 403) =>
                         /\ ErrorKeys(r.reply) = {UnauthorizedKey[r.cmd]}
                         /\ store' = store ]_vars

\* C2 witness: an update without a required role whose id and name are also
\* invalid, answered 403.
C2_Witness ==
    \E s \in Slots :
        /\ server = "mock"
        /\ Answered(s)
        /\ flight[s].cmd = "update"
        /\ flight[s].user.profiles = {"User", "ShoppingListMember"}
        /\ Falsy(flight[s].dtoIn.id)
        /\ ~GoodName(flight[s].dtoIn.name)
        /\ flight[s].reply.status = 403

\* the invalid fields of an update, as the specification's command table has
\* them: an id that is missing or no identifier, a supplied name that is not
\* a non-empty string, a supplied state outside {active, archived}
BadId(v) == Falsy(v) \/ v = Str(<<"x">>)

BadName(v) == v.t # "undefined" /\ ~GoodName(v)

BadState(v) == v.t # "undefined" /\ ~(v.t = "string" /\ v.s \in {<<"active">>, <<"archived">>})

InvalidUpdateKeys(dtoIn) ==
    (IF BadId(dtoIn.id) THEN {"shoppingList/update/invalidId"} ELSE {})
    \cup (IF BadName(dtoIn.name) THEN {"shoppingList/update/invalidName"} ELSE {})
    \cup (IF BadState(dtoIn.state) THEN {"shoppingList/update/invalidState"} ELSE {})

\* C3: an update with several invalid fields is answered 400 with one entry
\* per invalid field (invalidId, invalidName, invalidState).  The mock
\* server's update never checks state, so this fails there.
C3_OneEntryPerInvalidField ==
    \A s \in Slots :
        (/\ Answered(s)
         /\ flight[s].cmd = "update"
         /\ flight[s].reply.status # 403
         /\ Cardinality(InvalidUpdateKeys(flight[s].dtoIn)) >= 2) =>
            /\ flight[s].reply.status = 400
            /\ InvalidUpdateKeys(flight[s].dtoIn) \subseteq ErrorKeys(flight[s].reply)

\* the body of a successful create, as the specification states it
CreatedBody(r, name) ==
    /\ "id" \in DOMAIN r.body
    /\ IsTrimOf(name.s, r.body.name)
    /\ r.body.state = <<"active">>
    /\ ErrorKeys(r) = {}

\* this step settles the answer of the request cmd in slot s of the MongoDB
\* server
DbDecided(s, cmd) == server = "db" /\ Decided(s) /\ flight'[s].cmd = cmd

\* C4 as stated: a create with a valid name is answered 201 with id, the
\* trimmed name, state "active" and an empty map; any other create is
\* answered 400 with invalidName and stores nothing.  Refuted by a create
\* whose store operation throws.
C4_CreateAsStated ==
    [][ \A s \in Slots :
          DbDecided(s, "create") =>
              LET r == flight'[s]
                  res == Outcome(flight'[s])
              IN  IF GoodName(r.dtoIn.name)
                  THEN res.status = 201 /\ CreatedBody(res, r.dtoIn.name)
                  ELSE /\ res.status = 400
                       /\ "shoppingList/create/invalidName" \in ErrorKeys(res)
                       /\ store' = store ]_vars

\* C4 amended: as C4, unless the store operation throws: then the answer is
\* 500 with the single key shoppingList/create/failed and nothing is stored.
C4_CreateUnlessStoreFails ==
    [][ \A s \in Slots :
          DbDecided(s, "create") =>
              LET r == flight'[s]
                  res == Outcome(flight'[s])
              IN  IF ~GoodName(r.dtoIn.name)
                  THEN /\ res.status = 400
                       /\ "shoppingList/create/invalidName" \in ErrorKeys(res)
                       /\ store' = store
                  ELSE IF r.threw
                  THEN /\ res.status = 500
                       /\ ErrorKeys(res) = {"shoppingList/create/failed"}
                       /\ store' = store
                  ELSE res.status = 201 /\ CreatedBody(res, r.dtoIn.name) ]_vars

\* C4 witness: a create whose name has surrounding whitespace, answered 201.
C4_Witness ==
    \E s \in Slots :
        /\ server = "db"
        /\ Answered(s)
        /\ flight[s].cmd = "create"
        /\ flight[s].dtoIn.name = Str(<<VT, "Eggs", " ">>)
        /\ flight[s].reply.status = 201
        /\ flight[s].reply.body.name = <<"Eggs">>

\* the request's path id names the ObjectId oid
IdNames(dtoIn, oid) == dtoIn.id = Str(OidToString(oid))

\* the identity of the caller, as both servers have it
CallerIdentity == "uu5:1234-5678"

HasOwner(members, identity) ==
    \E i \in DOMAIN members :
        members[i].role = "owner" /\ members[i].uuIdentity = identity

\* the store runs in this step the operation of the request cmd in slot s
\* that names the ObjectId oid
Served(s, cmd, oid) ==
    /\ server = "db"
    /\ flight[s].pc = "Awaiting"
    /\ flight'[s].pc = "Served"
    /\ flight[s].cmd = cmd
    /\ IdNames(flight[s].dtoIn, oid)

\* C5 as stated: after create(name = X) returned id, a get(id) before any
\* update or delete of that id returns name = X, state "active" and the
\* caller as owner member (stated here of a get whose store operation does
\* not throw and runs after that of the create and before that of any update
\* or delete of the id).  Refuted by a name with surrounding whitespace: the
\* stored name is trimmed.
C5_RoundTripAsStated ==
    [][ \A s \in Slots, oid \in DOMAIN created :
          (Served(s, "get", oid) /\ ~flight'[s].threw) =>
              LET res == flight'[s].result
              IN  /\ res.status = 200
                  /\ res.body.name = created[oid].s
                  /\ res.body.state = <<"active">>
                  /\ HasOwner(res.body.members, CallerIdentity) ]_vars

\* C5 amended: such a get, unless its store operation throws (500), is
\* answered 200 with the trimmed form of X as name, state "active" and the
\* caller as owner member.
C5_RoundTripTrimmed ==
    [][ \A s \in Slots, oid \in DOMAIN created :
          Served(s, "get", oid) =>
              LET res == flight'[s].result
              IN  IF flight'[s].threw
                  THEN res.status = 500 /\ ErrorKeys(res) = {"shoppingList/get/failed"}
                  ELSE /\ res.status = 200
                       /\ IsTrimOf(created[oid].s, res.body.name)
                       /\ res.body.state = <<"active">>
                       /\ HasOwner(res.body.members, CallerIdentity) ]_vars

\* C5 witness: the get of a list created as "Eggs" between a vertical tab and
\* a space returns "Eggs".
C5_Witness ==
    \E s \in Slots, oid \in DOMAIN created :
        /\ server = "db"
        /\ Answered(s)
        /\ flight[s].cmd = "get"
        /\ IdNames(flight[s].dtoIn, oid)
        /\ created[oid] = Str(<<VT, "Eggs", " ">>)
        /\ flight[s].reply.status = 200
        /\ flight[s].reply.body.name = <<"Eggs">>

\* the collection without the document oid
Without(coll, oid) == [k \in DOMAIN coll \ {oid} |-> coll[k]]

\* C6 as stated: delete(id) of a stored record is answered 200 with
\* deleted = true and removes the record; a delete of an id not in the store
\* (deleted before, or never there) is answered 404 with
\* shoppingList/delete/notFound and changes nothing.  Refuted by a delete
\* whose store operation throws.
C6_DeleteAsStated ==
    [][ \A s \in Slots, oid \in 1..MaxOid :
          Served(s, "delete", oid) =>
              LET res == flight'[s].result
              IN  IF oid \in DOMAIN store
                  THEN /\ res.status = 200
                       /\ res.body.deleted = TRUE
                       /\ store' = Without(store, oid)
                  ELSE /\ res.status = 404
                       /\ "shoppingList/delete/notFound" \in ErrorKeys(res)
                       /\ store' = store ]_vars

\* C6 amended: as C6, unless the store operation throws: then the answer is
\* 500 with the single key shoppingList/delete/failed and the store is
\* unchanged.
C6_DeleteUnlessStoreFails ==
    [][ \A s \in Slots, oid \in 1..MaxOid :
          Served(s, "delete", oid) =>
              LET res == flight'[s].result
              IN  IF flight'[s].threw
                  THEN /\ res.status = 500
                       /\ ErrorKeys(res) = {"shoppingList/delete/failed"}
                       /\ store' = store
                  ELSE IF oid \in DOMAIN store
                  THEN /\ res.status = 200
                       /\ res.body.deleted = TRUE
                       /\ store' = Without(store, oid)
                  ELSE /\ res.status = 404
                       /\ "shoppingList/delete/notFound" \in ErrorKeys(res)
                       /\ store' = store ]_vars

\* C6 witness: a second delete of an id that was stored and deleted, answered
\* 404, while another document is still stored.
C6_Witness ==
    \E s \in Slots, oid \in 1..MaxOid :
        /\ server = "db"
        /\ Answered(s)
        /\ flight[s].cmd = "delete"
        /\ IdNames(flight[s].dtoIn, oid)
        /\ oid < nextOid
        /\ oid \notin DOMAIN store
        /\ DOMAIN store # {}
        /\ flight[s].reply.status = 404

\* C7 as stated: a get with a well-formed id is answered 200 with the id and
\* name of the stored record and an empty map, or 404 with
\* shoppingList/get/notFound when no record has that id; get never changes
\* the store.  Refuted by a get whose store operation throws.
C7_GetAsStated ==
    [][ \A s \in Slots :
          /\ DbDecided(s, "get") => store' = store
          /\ \A oid \in 1..MaxOid :
               Served(s, "get", oid) =>
                   LET res == flight'[s].result
                   IN  IF oid \in DOMAIN store
                       THEN /\ res.status = 200
                            /\ res.body.id = flight[s].dtoIn.id.s
                            /\ res.body.name = store[oid].name
                            /\ ErrorKeys(res) = {}
                       ELSE /\ res.status = 404
                            /\ "shoppingList/get/notFound" \in ErrorKeys(res) ]_vars

\* C7 amended: as C7, unless the store operation throws: then the answer is
\* 500 with the single key shoppingList/get/failed.
C7_GetUnlessStoreFails ==
    [][ \A s \in Slots :
          /\ DbDecided(s, "get") => store' = store
          /\ \A oid \in 1..MaxOid :
               Served(s, "get", oid) =>
                   LET res == flight'[s].result
                   IN  IF flight'[s].threw
                       THEN /\ res.status = 500
                            /\ ErrorKeys(res) = {"shoppingList/get/failed"}
                       ELSE IF oid \in DOMAIN store
                       THEN /\ res.status = 200
                            /\ res.body.id = flight[s].dtoIn.id.s
                            /\ res.body.name = store[oid].name
                            /\ ErrorKeys(res) = {}
                       ELSE /\ res.status = 404
                            /\ "shoppingList/get/notFound" \in ErrorKeys(res) ]_vars

\* C7 witness: with two documents stored, a get of the second is answered 200.
C7_Witness ==
    \E s \in Slots :
        /\ server = "db"
        /\ Answered(s)
        /\ flight[s].cmd = "get"
        /\ DOMAIN store = {1, 2}
        /\ IdNames(flight[s].dtoIn, 2)
        /\ flight[s].reply.status = 200
        /\ flight[s].reply.body.name = store[2].name
        /\ store[1].state # store[2].state

\* the itemList of a list answer has exactly one entry per stored record,
\* with itemCount the length of the record's items
OneEntryPerRecord(itemList, coll) ==
    /\ DOMAIN itemList = 1..Cardinality(DOMAIN coll)
    /\ \A oid \in DOMAIN coll :
          \E i \in DOMAIN itemList :
              /\ itemList[i].id = OidToString(oid)
              /\ itemList[i].itemCount = Len(coll[oid].items)

\* C8 as stated: in every state of the store, list is answered 200 with one
\* itemList entry per stored record, itemCount being the length of the
\* record's items.  Refuted by a list whose store operation throws.
C8_ListAsStated ==
    [][ \A s \in Slots :
          DbDecided(s, "list") =>
              /\ Outcome(flight'[s]).status = 200
              /\ OneEntryPerRecord(Outcome(flight'[s]).body.itemList, store) ]_vars

\* C8 amended: as C8, of the store as it is when the store runs the list's
\* operation, unless that operation throws: then the answer is 500 with the
\* single key shoppingList/list/failed.
C8_ListUnlessStoreFails ==
    [][ \A s \in Slots :
          DbDecided(s, "list") =>
              LET res == Outcome(flight'[s])
              IN  IF flight'[s].threw
                  THEN res.status = 500 /\ ErrorKeys(res) = {"shoppingList/list/failed"}
                  ELSE /\ res.status = 200
                       /\ OneEntryPerRecord(res.body.itemList, store) ]_vars

\* C8 witness: a list of two stored records, one without items and one with
\* two.
C8_Witness ==
    \E s \in Slots :
        /\ server = "db"
        /\ Answered(s)
        /\ flight[s].cmd = "list"
        /\ flight[s].reply.status = 200
        /\ Len(flight[s].reply.body.itemList) = 2
        /\ {flight[s].reply.body.itemList[1].itemCount,
            flight[s].reply.body.itemList[2].itemCount} = {0, 2}

\* C9: an update of a stored record that supplies a state outside
\* {active, archived} is answered 400 with shoppingList/update/invalidState
\* and the stored record is unchanged.
C9_InvalidStateRejected ==
    [][ \A s \in Slots, oid \in DOMAIN store :
          (/\ DbDecided(s, "update")
           /\ IdNames(flight'[s].dtoIn, oid)
           /\ BadState(flight'[s].dtoIn.state)) =>
              /\ Outcome(flight'[s]).status = 400
              /\ "shoppingList/update/invalidState" \in ErrorKeys(Outcome(flight'[s]))
              /\ oid \in DOMAIN store'
              /\ store'[oid] = store[oid] ]_vars

\* C9 witness: update {state: "deleted"} of a stored record, no name supplied,
\* answered 400.
C9_Witness ==
    \E s \in Slots, oid \in DOMAIN store :
        /\ server = "db"
        /\ Answered(s)
        /\ flight[s].cmd = "update"
        /\ IdNames(flight[s].dtoIn, oid)
        /\ flight[s].dtoIn.name = Undefined
        /\ flight[s].dtoIn.state = Str(<<"deleted">>)
        /\ flight[s].reply.status = 400

\* C10: after any create, update and delete requests from an empty store,
\* every stored list has a non-empty name equal to its trimmed form and a
\* state that is "active" or "archived".
C10_StoredNameTrimmedStateEnum ==
    \A oid \in DOMAIN store :
        /\ store[oid].name # <<>>
        /\ IsTrimOf(store[oid].name, store[oid].name)
        /\ store[oid].state \in {<<"active">>, <<"archived">>}

\* C10 witness: after a delete, the remaining list was archived by one update
\* and renamed by another, its name given with surrounding whitespace.
C10_Witness ==
    \E s \in Slots :
        /\ server = "db"
        /\ Answered(s)
        /\ flight[s].cmd = "update"
        /\ flight[s].dtoIn.name = Str(<<VT, "Eggs", " ">>)
        /\ flight[s].reply.status = 200
        /\ flight[s].reply.body.state = <<"archived">>
        /\ nextOid = 3
        /\ DOMAIN store = {2}
        /\ store[2].name = <<"Eggs">>
        /\ store[2].state = <<"archived">>

\* the fields of a stored record
RecordFields ==
    {"_id", "name", "state", "ownerUuIdentity", "members", "items",
     "createdAt", "updatedAt", "__v"}

\* the fields of a record that dtoIn supplies
Supplied(dtoIn) ==
    {f \in {"name"} : dtoIn.name.t # "undefined"}
        \cup {f \in {"state"} : dtoIn.state.t # "undefined"}

\* the record after has the fields of the record before, the supplied
\* fields of dtoIn replaced, the name by its trimmed form, and every field
\* that is neither supplied nor in written as it was
Replaced(before, after, dtoIn, written) ==
    /\ DOMAIN before = RecordFields
    /\ DOMAIN after = RecordFields
    /\ "name" \in Supplied(dtoIn) => IsTrimOf(dtoIn.name.s, after.name)
    /\ "state" \in Supplied(dtoIn) => after.state = dtoIn.state.s
    /\ \A f \in RecordFields \ (Supplied(dtoIn) \cup written) : after[f] = before[f]

\* a successful update of the stored record oid replaces exactly the
\* supplied fields of that record and changes no other record
UpdateFrameAsStated ==
    \A s \in Slots, oid \in DOMAIN store :
        (Served(s, "update", oid) /\ flight'[s].result.status = 200) =>
            /\ DOMAIN store' = DOMAIN store
            /\ Replaced(store[oid], store'[oid], flight[s].dtoIn, {})
            /\ \A other \in DOMAIN store \ {oid} : store'[other] = store[other]

\* a successful update of the stored record oid replaces the supplied
\* fields of that record, sets its updatedAt to the time read when the
\* update was issued, leaves its other fields and changes no other record
UpdateFrame ==
    \A s \in Slots, oid \in DOMAIN store :
        (Served(s, "update", oid) /\ flight'[s].result.status = 200) =>
            /\ DOMAIN store' = DOMAIN store
            /\ Replaced(store[oid], store'[oid], flight[s].dtoIn, {"updatedAt"})
            /\ store'[oid].updatedAt = flight[s].now
            /\ flight[s].now \in Clock
            /\ \A other \in DOMAIN store \ {oid} : store'[other] = store[other]

\* C12 as stated: a successful update(id, fields) replaces exactly the
\* supplied fields of record id (name trimmed) and leaves the record's other
\* fields, its owner, members and items and every other record unchanged; an
\* update of an id not in the store is answered 404 with
\* shoppingList/update/notFound and creates no record.  Refuted by an update
\* of an absent id that is answered 400 or 500, and by the updatedAt of the
\* record, which no update supplies and every successful update rewrites.
C12_UpdateAsStated ==
    [][ /\ UpdateFrameAsStated
        /\ \A s \in Slots, oid \in (1..MaxOid) \ DOMAIN store :
             (DbDecided(s, "update") /\ IdNames(flight'[s].dtoIn, oid)) =>
                 /\ Outcome(flight'[s]).status = 404
                 /\ "shoppingList/update/notFound" \in ErrorKeys(Outcome(flight'[s]))
                 /\ store' = store ]_vars

\* C12 amended: a successful update(id, fields) replaces the supplied fields
\* of record id (name trimmed), sets the record's updatedAt to the time the
\* model read when the update was issued, and leaves the record's other
\* fields (_id, unsupplied name or state, owner, members, items, createdAt,
\* __v) and every other record unchanged; the update of an id not in the
\* store is answered 400 when a supplied name or state is invalid, 500 with
\* the single key shoppingList/update/failed when the store operation
\* throws, and else 404 with the single key shoppingList/update/notFound; in
\* every case it creates no record.
C12_UpdateFrame ==
    [][ /\ UpdateFrame
        /\ \A s \in Slots, oid \in (1..MaxOid) \ DOMAIN store :
             (DbDecided(s, "update") /\ IdNames(flight'[s].dtoIn, oid)) =>
                 LET r == flight'[s]
                     res == Outcome(flight'[s])
                 IN  /\ store' = store
                     /\ IF BadName(r.dtoIn.name) \/ BadState(r.dtoIn.state)
                        THEN res.status = 400
                        ELSE IF r.threw
                        THEN /\ res.status = 500
                             /\ ErrorKeys(res) = {"shoppingList/update/failed"}
                        ELSE /\ res.status = 404
                             /\ ErrorKeys(res) = {"shoppingList/update/notFound"} ]_vars

\* C12 witness: of two stored records, the archived one with two members and
\* two items, created at time 1, was renamed at time 2 by an update giving
\* only a name, with surrounding whitespace; the other record was created
\* at time 2.
C12_Witness ==
    \E s \in Slots, oid \in DOMAIN store :
        /\ server = "db"
        /\ Answered(s)
        /\ flight[s].cmd = "update"
        /\ IdNames(flight[s].dtoIn, oid)
        /\ flight[s].dtoIn.name = Str(<<VT, "Eggs", " ">>)
        /\ flight[s].dtoIn.state = Undefined
        /\ flight[s].reply.status = 200
        /\ store[oid].name = <<"Eggs">>
        /\ store[oid].state = <<"archived">>
        /\ Len(store[oid].members) = 2
        /\ Len(store[oid].items) = 2
        /\ store[oid].createdAt = 1
        /\ store[oid].updatedAt = 2
        /\ flight[s].now = 2
        /\ store[oid].__v = 0
        /\ Cardinality(DOMAIN store) = 2
        /\ \A other \in DOMAIN store \ {oid} : store[other].updatedAt = 2

----------------------------------------------------------------------------
\* The request machine and the interleaving of requests.

\* the state of the specification's request machine that a request is in, as
\* stated: a request whose handler awaits the store or has not yet resumed
\* is Executing, an answered request is Rejected (403, 400), Failed (500) or
\* Succeeded (2xx)
StatedPhase(r) ==
    IF r.pc \in {"Awaiting", "Served"} THEN "Executing"
    ELSE IF r.pc # "Responded" THEN r.pc
    ELSE IF r.reply.status \in {400, 403} THEN "Rejected"
    ELSE IF r.reply.status = 500 THEN "Failed"
    ELSE IF Is2xx(r.reply.status) THEN "Succeeded"
    ELSE "Other"

\* as StatedPhase, an answer 404 being the further terminal state NotFound
Phase(r) ==
    IF r.pc = "Responded" /\ r.reply.status = 404 THEN "NotFound" ELSE StatedPhase(r)

\* the transitions of the machine as stated, with the arrival of a request
\* and the end of an answered one
StatedEdges ==
    { <<"Free", "Received">>, <<"Received", "Authorizing">>,
      <<"Authorizing", "Rejected">>, <<"Authorizing", "Validating">>,
      <<"Validating", "Rejected">>, <<"Validating", "Executing">>,
      <<"Executing", "Failed">>, <<"Executing", "Succeeded">>,
      <<"Rejected", "Free">>, <<"Failed", "Free">>, <<"Succeeded", "Free">> }

FailedKey ==
    [list |-> "shoppingList/list/failed", get |-> "shoppingList/get/failed",
     create |-> "shoppingList/create/failed", update |-> "shoppingList/update/failed",
     delete |-> "shoppingList/delete/failed"]

NotFoundKey ==
    [get |-> "shoppingList/get/notFound", update |-> "shoppingList/update/notFound",
     delete |-> "shoppingList/delete/notFound"]

\* authorization and every validation of the command table pass for r
ChecksPass(srv, r) ==
    /\ (srv = "mock" /\ r.cmd \in GatedCommands) =>
           r.user.profiles \cap RequiredRoles[r.cmd] # {}
    /\ (srv = "db" /\ r.cmd \in {"get", "update", "delete"}) => ~BadId(r.dtoIn.id)
    /\ (srv = "db" /\ r.cmd = "create") => GoodName(r.dtoIn.name)
    /\ (srv = "db" /\ r.cmd = "update") =>
           ~BadName(r.dtoIn.name) /\ ~BadState(r.dtoIn.state)

\* what the claim states of one step of one request, a being the request
\* before the step, b after it, pa and pb their states in the machine
MachineStep(a, b, pa, pb, edges) ==
    /\ pa # pb => <<pa, pb>> \in edges
    /\ pb = "Executing" => ChecksPass(server, b)
    /\ b.ops > a.ops => pa = "Executing" /\ pb = "Executing" /\ ChecksPass(server, b)
    /\ (pa # pb /\ pb = "Rejected") =>
           /\ pa = "Authorizing" <=> b.reply.status = 403
           /\ pa = "Validating" <=> b.reply.status = 400
           /\ b.ops = 0
           /\ store' = store
    /\ (a.pc = "Awaiting" /\ b.pc = "Served" /\ b.threw) => store' = store
    /\ (pa # pb /\ pb = "Failed") =>
           /\ b.threw
           /\ ErrorKeys(b.reply) = {FailedKey[b.cmd]}
    /\ (pa # pb /\ pb = "Succeeded") =>
           /\ ~b.threw
           /\ ErrorKeys(b.reply) = {}

\* the store changes only by the store operation of a request that is
\* Executing and then Succeeded
StoreStep ==
    store' # store =>
        \E s \in Slots :
            /\ flight[s].pc = "Awaiting"
            /\ flight'[s].pc = "Served"
            /\ flight[s].ops = 1
            /\ ~flight'[s].threw
            /\ Is2xx(flight'[s].result.status)

\* C11 as stated: every request follows Received -> Authorizing ->
\* (Rejected | Validating) -> (Rejected | Executing) -> (Failed | Succeeded);
\* a store operation is issued only in Executing, after authorization and the
\* validations passed; Rejected comes only from Authorizing or Validating and
\* leaves the store alone; Failed (500, single key <command>/failed) only
\* from Executing on a store error; Succeeded only from Executing on store
\* success.  Refuted by a request whose store operation finds no record: it
\* is answered 404.
C11_MachineAsStated ==
    [][ /\ StoreStep
        /\ \A s \in Slots :
              MachineStep(flight[s], flight'[s], StatedPhase(flight[s]),
                          StatedPhase(flight'[s]), StatedEdges) ]_vars

\* C11 amended: as C11, Executing having a third way out: when the store
\* operation succeeds and finds no record of the id, the request ends in
\* NotFound, answered 404 with the single key <command>/notFound, the store
\* unchanged.
C11_MachineWithNotFound ==
    [][ /\ StoreStep
        /\ \A s \in Slots :
              /\ MachineStep(flight[s], flight'[s], Phase(flight[s]), Phase(flight'[s]),
                             StatedEdges \cup { <<"Executing", "NotFound">>,
                                                <<"NotFound", "Free">> })
              /\ (flight[s].pc = "Awaiting" /\ flight'[s].pc = "Served"
                                            /\ flight'[s].result.status = 404) =>
                     /\ ~(\E oid \in DOMAIN store : IdNames(flight[s].dtoIn, oid))
                     /\ store' = store
              /\ (Phase(flight[s]) # "NotFound" /\ Phase(flight'[s]) = "NotFound") =>
                     /\ ~flight'[s].threw
                     /\ flight'[s].cmd \in DOMAIN NotFoundKey
                     /\ ErrorKeys(flight'[s].reply) = {NotFoundKey[flight'[s].cmd]} ]_vars

\* C11 witness: a delete whose store operation found no record is answered
\* 404, NotFound, while a create called after it is Executing.
C11_Witness ==
    \E s \in Slots :
        /\ server = "db"
        /\ flight[s].cmd = "delete"
        /\ Phase(flight[s]) = "NotFound"
        /\ flight[s].ops = 1
        /\ flight[Other(s)].cmd = "create"
        /\ Phase(flight[Other(s)]) = "Executing"

\* reply is the answer 200 with deleted = true
Deleted(reply) == reply.status = 200 /\ reply.body.deleted = TRUE

\* reply is the answer 404 with the notFound key of cmd
AnsweredNotFound(cmd, reply) ==
    reply.status = 404 /\ ErrorKeys(reply) = {NotFoundKey[cmd]}

\* reply is the answer 500 with the failed key of cmd
AnsweredFailed(cmd, reply) ==
    reply.status = 500 /\ ErrorKeys(reply) = {FailedKey[cmd]}

\* the store runs in this step the operation of the update or delete in
\* slot s on the ObjectId oid, having run before it, on the stored record
\* oid, that of another update or delete in progress together with this one
SecondServed(s, oid) ==
    /\ server = "db"
    /\ flight[s].pc = "Awaiting"
    /\ flight'[s].pc = "Served"
    /\ IdNames(flight[s].dtoIn, oid)
    /\ flight[s].prior.cmd # "none"

\* C13 as stated: of two interleaved requests on the same stored id, (a) two
\* deletes are answered one 200 with deleted = true, the other 404 notFound;
\* (b) an update whose store operation runs after that of a delete is
\* answered 404 notFound and the record stays absent; the record is absent
\* once both requests are answered.  Refuted by a store operation that
\* throws.
C13_InterleavingAsStated ==
    [][ \A s \in Slots, oid \in 1..MaxOid :
          SecondServed(s, oid) =>
              LET cmd == flight[s].cmd
                  res == flight'[s].result
                  first == flight[s].prior
              IN  /\ (cmd = "delete" /\ first.cmd = "delete") =>
                         \/ Deleted(first.result) /\ AnsweredNotFound(cmd, res)
                         \/ Deleted(res) /\ AnsweredNotFound(first.cmd, first.result)
                  /\ (cmd = "update" /\ first.cmd = "delete") =>
                         /\ AnsweredNotFound(cmd, res)
                         /\ oid \notin DOMAIN store'
                  /\ (/\ "delete" \in {cmd, first.cmd}
                      /\ {cmd, first.cmd} \subseteq {"delete", "update"}) =>
                         oid \notin DOMAIN store' ]_vars

\* C13 amended: as C13 for store operations that do not throw.  A request
\* whose store operation throws is answered 500 with the single key
\* <command>/failed and changes nothing: (a) holds of two deletes of which
\* neither throws; (b) the update after a delete that did not throw is
\* answered 404, or 500 if its own operation throws, and the record stays
\* absent; once both requests are answered the record is absent if the store
\* operation of a delete among them did not throw.
C13_InterleavingUnlessStoreFails ==
    [][ \A s \in Slots, oid \in 1..MaxOid :
          SecondServed(s, oid) =>
              LET cmd == flight[s].cmd
                  res == flight'[s].result
                  threw == flight'[s].threw
                  first == flight[s].prior
              IN  /\ threw <=> AnsweredFailed(cmd, res)
                  /\ first.threw <=> AnsweredFailed(first.cmd, first.result)
                  /\ threw => store' = store
                  /\ (cmd = "delete" /\ first.cmd = "delete" /\ ~threw /\ ~first.threw) =>
                         \/ Deleted(first.result) /\ AnsweredNotFound(cmd, res)
                         \/ Deleted(res) /\ AnsweredNotFound(first.cmd, first.result)
                  /\ (cmd = "update" /\ first.cmd = "delete" /\ ~first.threw) =>
                         /\ threw \/ AnsweredNotFound(cmd, res)
                         /\ oid \notin DOMAIN store'
                  /\ (\/ cmd = "delete" /\ ~threw /\ first.cmd \in {"delete", "update"}
                      \/ first.cmd = "delete" /\ ~first.threw /\ cmd \in {"delete", "update"}) =>
                         oid \notin DOMAIN store' ]_vars

\* C13 witness: a delete and a renaming update of the same stored record were
\* both awaiting the store; the store ran the delete first, the update,
\* run after it, is answered 404, and the record is gone.
C13_Witness ==
    \E s \in Slots, oid \in 1..MaxOid :
        /\ server = "db"
        /\ Answered(s)
        /\ flight[s].cmd = "update"
        /\ IdNames(flight[s].dtoIn, oid)
        /\ flight[s].dtoIn.name = Str(<<VT, "Eggs", " ">>)
        /\ flight[Other(s)].cmd = "delete"
        /\ flight[Other(s)].pc = "Served"
        /\ flight[Other(s)].dtoIn.id = flight[s].dtoIn.id
        /\ flight[Other(s)].found
        /\ Deleted(flight[Other(s)].result)
        /\ AnsweredNotFound("update", flight[s].reply)
        /\ flight[s].ops = 1
        /\ oid \notin DOMAIN store
        /\ oid < nextOid

====
